---- MODULE Spec2Model ----
(***************************************************************************)
(* Model of connectors/binance_futures.py: BinanceFuturesClient, its REST  *)
(* operations, the price cache and the websocket thread (_start_ws).       *)
(*                                                                         *)
(* Two threads are modelled.  The foreground thread runs __init__ and then *)
(* the public REST operations; the stream thread runs _start_ws and the    *)
(* websocket callbacks.  Handlers that touch state shared by the two       *)
(* threads (prices, ws_id) are split at every statement that reads or      *)
(* writes that state; everything else is one step per call.                *)
(*                                                                         *)
(* Python values: None is PyNone, a dict is PyDict(items) with items the   *)
(* sequence of <<key, value>> pairs in insertion order, a list is          *)
(* PyList(items).  A str that the code inspects character by character     *)
(* (a contract symbol, through str.lower) is a sequence of one-character   *)
(* strings.  A float is the integer number of tenths it stands for.        *)
(***************************************************************************)
EXTENDS Integers, Sequences, FiniteSets, TLC

VARIABLES
    pc,         \* position of the foreground thread
    contracts,  \* self.contracts
    balances,   \* self.balances
    prices,     \* self.prices: function symbol -> [bid, ask], domain = keys
    ws_id,      \* self.ws_id
    ws,         \* self.ws: "None" or "app" (the WebSocketApp object)
    lastOp,     \* the REST call the foreground thread made last: its arguments,
                \* the response it got, and its outcome (exc, ret, log)
    wpc,        \* position of the stream thread
    wlast,      \* the message _on_message received last, and how the handler ended
    sub,        \* local `data` of the subscribe_channel the stream thread runs
    fsub,       \* local `data` of the subscribe_channel the foreground runs
    tmp,        \* the value of self.ws_id each thread has loaded on line 235
    slog,       \* the entries subscribe_channel wrote with logger.error (line 234)
    wsent,      \* requests handed to ws.send since the last connection-open event
    fresh       \* history: which writer's running upsert has not been written over

vars == <<pc, contracts, balances, prices, ws_id, ws, lastOp, wpc, wlast,
          sub, fsub, tmp, slog, wsent, fresh>>

----------------------------------------------------------------------------
(* Bounds of the model *)

MaxWsId == 3

----------------------------------------------------------------------------
(* Python values *)

PyNone == [type |-> "None"]
PyDict(items) == [type |-> "dict", items |-> items]
PyList(items) == [type |-> "list", items |-> items]
PyInt(n) == [type |-> "int", n |-> n]
\* a str whose characters matter: s is the sequence of its characters
PyStr(s) == [type |-> "str", s |-> s]
Unset == [type |-> "unset"]

RECURSIVE DictKeyIndex(_, _, _)
DictKeyIndex(items, k, i) ==
    IF i > Len(items) THEN 0
    ELSE IF items[i][1] = k THEN i
    ELSE DictKeyIndex(items, k, i + 1)

\* d[k] = v on a dict: replaces the value in place, or appends a new key
DictPut(items, k, v) ==
    LET i == DictKeyIndex(items, k, 1)
    IN  IF i = 0 THEN Append(items, <<k, v>>)
        ELSE [items EXCEPT ![i] = <<k, v>>]

\* list(d.values())
DictValues(items) == [i \in 1..Len(items) |-> items[i][2]]

----------------------------------------------------------------------------
(* Symbols, prices and the strings the exchange sends *)

BTCUSDT == <<"B", "T", "C", "U", "S", "D", "T">>
ETHUSDT == <<"E", "T", "H", "U", "S", "D", "T">>
Symbols == {BTCUSDT, ETHUSDT}

\* <<bid, ask>> decimal strings the REST book ticker and the stream quote
RestTick(symbol) == IF symbol = BTCUSDT THEN <<"1", "2.5">> ELSE <<"1.0", "2.5">>
StreamTick(symbol) == IF symbol = BTCUSDT THEN <<"3", "4.5">> ELSE <<"3.0", "4.5">>
BadPriceStr == "abc"

\* float(s): the parsed number in tenths, or a ValueError
FloatOk(s) == s \in {"1", "1.0", "2.5", "3", "3.0", "4.5"}
Float(s) ==
    CASE s = "1"   -> 10
      [] s = "1.0" -> 10
      [] s = "2.5" -> 25
      [] s = "3"   -> 30
      [] s = "3.0" -> 30
      [] s = "4.5" -> 45

\* str.lower(), character by character
LowerChar(c) ==
    CASE c = "B" -> "b" [] c = "T" -> "t" [] c = "C" -> "c" [] c = "U" -> "u"
      [] c = "S" -> "s" [] c = "D" -> "d" [] c = "E" -> "e" [] c = "H" -> "h"
      [] OTHER -> c
Lower(s) == [i \in 1..Len(s) |-> LowerChar(s[i])]

----------------------------------------------------------------------------
(* HTTP responses: what requests.get/post/delete can produce *)

\* response bodies: a JSON object, a JSON array, or text that is not JSON
JsonObj(o) == [obj |-> o]
JsonArr(a) == [arr |-> a]
NotJson == [raw |-> "<html>"]
IsJson(b) == "raw" \notin DOMAIN b

StatusOk == 200

\* the requests call raised (DNS, connect, timeout)
Transport == [kind |-> "transport", status |-> 0, body |-> NotJson]
Http(s, b) == [kind |-> "http", status |-> s, body |-> b]
NoResp == [kind |-> "none", status |-> 0, body |-> NotJson]

\* a rejection by the exchange, and an error page of a gateway
ErrBody == JsonObj([code |-> -1121, msg |-> "Invalid symbol."])
ErrResponses == {Http(400, ErrBody), Http(502, NotJson)}

ContractBodies ==
    { JsonObj([symbols |-> <<[symbol |-> BTCUSDT], [symbol |-> ETHUSDT],
                             [symbol |-> BTCUSDT]>>]),
      JsonObj([symbols |-> <<[pair |-> BTCUSDT]>>]),
      JsonObj([timezone |-> "UTC"]) }

Candle1 == <<1000, "1.0", "2.5", "1.0", "2.5", "7">>
Candle2 == <<2000, "2.5", "2.5", "1.0", "1.0", "9">>
KlineBodies == { JsonArr(<<>>), JsonArr(<<Candle1>>), JsonArr(<<Candle1, Candle2>>) }

TickerBodies ==
    { JsonObj([symbol |-> s, bidPrice |-> RestTick(s)[1], askPrice |-> RestTick(s)[2]]) :
        s \in Symbols }
    \cup { JsonObj([symbol |-> BTCUSDT, askPrice |-> "2.5"]),
           JsonObj([symbol |-> BTCUSDT, bidPrice |-> "1.0"]),
           JsonObj([symbol |-> BTCUSDT, bidPrice |-> "1.0", askPrice |-> BadPriceStr]) }

AccountBodies ==
    { JsonObj([assets |-> <<[asset |-> "BNB", walletBalance |-> "2.5"],
                            [asset |-> "USDT", walletBalance |-> "1.0"]>>]),
      JsonObj([assets |-> <<[walletBalance |-> "1.0"]>>]),
      JsonObj([feeTier |-> "0"]) }

OrderBodies ==
    { JsonObj([orderId |-> 7, status |-> "NEW"]),
      JsonObj([orderId |-> 7, status |-> "CANCELED"]) }

OkBodies(op) ==
    CASE op = "get_contracts" -> ContractBodies
      [] op = "get_historical_candles" -> KlineBodies
      [] op = "get_bid_ask" -> TickerBodies
      [] op = "get_balances" -> AccountBodies
      [] OTHER -> OrderBodies

Responses(op) ==
    {Transport}
    \cup ErrResponses
    \cup { Http(StatusOk, b) : b \in OkBodies(op) \cup {NotJson} }

----------------------------------------------------------------------------
(* Domain models (models.py) *)

Contract(contract_data) == [symbol |-> contract_data.symbol]
Candle(c) == [timestamp |-> c[1], open |-> c[2], high |-> c[3], low |-> c[4],
              close |-> c[5], volume |-> c[6]]
Balance(a) == [wallet_balance |-> a.walletBalance]
OrderStatus(o) == [order_id |-> o.orderId, status |-> o.status]

----------------------------------------------------------------------------
(* Request parameters and the signature *)

Digit(d) ==
    CASE d = 0 -> "0" [] d = 1 -> "1" [] d = 2 -> "2" [] d = 3 -> "3"
      [] d = 4 -> "4" [] d = 5 -> "5" [] d = 6 -> "6" [] d = 7 -> "7"
      [] d = 8 -> "8" [] d = 9 -> "9"

\* str(n) of a non-negative int
RECURSIVE IntStr(_)
IntStr(n) ==
    IF n < 10 THEN <<Digit(n)>>
    ELSE Append(IntStr(n \div 10), Digit(n % 10))

\* str(v), which urlencode applies to every value that is not a str
Str(v) ==
    CASE v.type = "int" -> IntStr(v.n)
      [] v.type = "None" -> <<"N", "o", "n", "e">>
      [] OTHER -> v.s

\* quote_plus, character by character
QuoteChar(c) ==
    CASE c = " " -> <<"+">>
      [] c = "+" -> <<"%", "2", "B">>
      [] c = "&" -> <<"%", "2", "6">>
      [] c = "=" -> <<"%", "3", "D">>
      [] OTHER -> <<c>>

RECURSIVE quote_plus(_)
quote_plus(s) ==
    IF s = <<>> THEN <<>> ELSE QuoteChar(Head(s)) \o quote_plus(Tail(s))

\* urlencode(data): the pairs in order, each "key=quote_plus(str(value))";
\* they are joined by "&", which no quoted value contains
urlencode(data) ==
    [i \in 1..Len(data) |-> <<data[i][1], "=", quote_plus(Str(data[i][2]))>>]

\* _generate_signature signing only the first parameter
generate_signature_first(secret_key, data) ==
    [hmac_key |-> secret_key, hmac_msg |-> urlencode(SubSeq(data, 1, 1))]

\* hmac.new(secret, urlencode(data), sha256).hexdigest(), as the pair it is
\* a function of
generate_signature(secret_key, data) ==
    [hmac_key |-> secret_key, hmac_msg |-> urlencode(data)]

SecretKey == "secret"
Times == {1000}

----------------------------------------------------------------------------
(* The REST layer.  Every operation yields                                 *)
(*   exc : "none", or the exception that leaves the call                   *)
(*   ret : the value returned (PyNone when it raises)                      *)
(*   log : the entries it wrote with logger.error, in order                *)

ConnLog(method, endpoint) ==
    [level |-> "error", what |-> "connection", method |-> method,
     endpoint |-> endpoint, code |-> 0]
StatusLog(method, endpoint, status) ==
    [level |-> "error", what |-> "status", method |-> method,
     endpoint |-> endpoint, code |-> status]

Returns(v, log) == [exc |-> "none", ret |-> v, log |-> log]
Raises(e, log) == [exc |-> e, ret |-> PyNone, log |-> log]

\* what requests.get/post/delete is called with, and an outcome r together
\* with the requests made on the way to it
Request(method, endpoint, data) ==
    [method |-> method, endpoint |-> endpoint, params |-> data]
Sent(r, reqs) == [exc |-> r.exc, ret |-> r.ret, log |-> r.log, sent |-> reqs]

\* make_request with the `return None` of a connection error left out: the
\* function goes on to read `response`, which was never bound
make_request_noreturn(method, endpoint, data, resp) ==
    IF method \notin {"GET", "POST", "DELETE"}
    THEN Sent(Raises("ValueError", <<>>), <<>>)
    ELSE Sent(IF resp.kind = "transport"
              THEN Raises("UnboundLocalError", <<ConnLog(method, endpoint)>>)
              ELSE IF resp.status = StatusOk
              THEN IF IsJson(resp.body) THEN Returns(resp.body, <<>>)
                   ELSE Raises("JSONDecodeError", <<>>)
              ELSE IF IsJson(resp.body)
              THEN Returns(PyNone, <<StatusLog(method, endpoint, resp.status)>>)
              ELSE Raises("JSONDecodeError", <<>>),
              <<Request(method, endpoint, data)>>)

\* make_request with `return None` on line 74 instead of the raise
make_request_swallow(method, endpoint, data, resp) ==
    IF method \notin {"GET", "POST", "DELETE"}
    THEN Sent(Returns(PyNone, <<>>), <<>>)
    ELSE Sent(IF resp.kind = "transport"
              THEN Returns(PyNone, <<ConnLog(method, endpoint)>>)
              ELSE IF resp.status = StatusOk
              THEN IF IsJson(resp.body) THEN Returns(resp.body, <<>>)
                   ELSE Raises("JSONDecodeError", <<>>)
              ELSE IF IsJson(resp.body)
              THEN Returns(PyNone, <<StatusLog(method, endpoint, resp.status)>>)
              ELSE Raises("JSONDecodeError", <<>>),
              <<Request(method, endpoint, data)>>)

make_request(method, endpoint, data, resp) ==
    IF method \notin {"GET", "POST", "DELETE"}
    THEN Sent(Raises("ValueError", <<>>), <<>>)
    ELSE Sent(IF resp.kind = "transport"
              THEN Returns(PyNone, <<ConnLog(method, endpoint)>>)
              ELSE IF resp.status = StatusOk
              THEN IF IsJson(resp.body) THEN Returns(resp.body, <<>>)
                   ELSE Raises("JSONDecodeError", <<>>)
              \* the log call's argument response.json() is evaluated before
              \* it logs
              ELSE IF IsJson(resp.body)
              THEN Returns(PyNone, <<StatusLog(method, endpoint, resp.status)>>)
              ELSE Raises("JSONDecodeError", <<>>),
              <<Request(method, endpoint, data)>>)

\* the loop of get_contracts over exchange_info['symbols']
RECURSIVE ContractsLoop(_, _, _)
ContractsLoop(list, i, acc) ==
    IF i > Len(list) THEN [exc |-> "none", items |-> acc]
    ELSE IF "symbol" \notin DOMAIN list[i] THEN [exc |-> "KeyError", items |-> acc]
    ELSE ContractsLoop(list, i + 1, DictPut(acc, list[i].symbol, Contract(list[i])))

get_contracts(resp) ==
    LET r == make_request("GET", "/fapi/v1/exchangeInfo", <<>>, resp)
    IN  Sent(IF r.exc # "none" THEN r
             ELSE IF r.ret = PyNone THEN Returns(PyDict(<<>>), r.log)
             ELSE IF "symbols" \notin DOMAIN r.ret.obj THEN Raises("KeyError", r.log)
             ELSE LET l == ContractsLoop(r.ret.obj.symbols, 1, <<>>)
                  IN  IF l.exc # "none" THEN Raises(l.exc, r.log)
                      ELSE Returns(PyDict(l.items), r.log),
             r.sent)

get_historical_candles(symbol, interval, resp) ==
    LET data == <<<<"symbol", PyStr(symbol)>>, <<"interval", interval>>,
                  <<"limit", PyInt(1000)>>>>
        r == make_request("GET", "/fapi/v1/klines", data, resp)
    IN  Sent(IF r.exc # "none" THEN r
             ELSE IF r.ret = PyNone THEN Returns(PyList(<<>>), r.log)
             ELSE Returns(PyList([i \in 1..Len(r.ret.arr) |-> Candle(r.ret.arr[i])]),
                          r.log),
             r.sent)

\* the loop of get_balances over account_data['assets']
RECURSIVE BalancesLoop(_, _, _)
BalancesLoop(list, i, acc) ==
    IF i > Len(list) THEN [exc |-> "none", items |-> acc]
    ELSE IF "asset" \notin DOMAIN list[i] THEN [exc |-> "KeyError", items |-> acc]
    ELSE BalancesLoop(list, i + 1, DictPut(acc, list[i].asset, Balance(list[i])))

get_balances(now, resp) ==
    LET d1 == DictPut(<<>>, "timestamp", PyInt(now))
        data == DictPut(d1, "signature", generate_signature(SecretKey, d1))
        r == make_request("GET", "/fapi/v2/account", data, resp)
    IN  Sent(IF r.exc # "none" THEN r
             ELSE IF r.ret = PyNone THEN Returns(PyDict(<<>>), r.log)
             ELSE IF "assets" \notin DOMAIN r.ret.obj THEN Raises("KeyError", r.log)
             ELSE LET l == BalancesLoop(r.ret.obj.assets, 1, <<>>)
                  IN  IF l.exc # "none" THEN Raises(l.exc, r.log)
                      ELSE Returns(PyDict(l.items), r.log),
             r.sent)

\* the tail shared by place_order, cancel_order and get_order_status
OrderResult(r) ==
    Sent(IF r.exc # "none" THEN r
         ELSE IF r.ret = PyNone THEN Returns(PyNone, r.log)
         ELSE Returns(OrderStatus(r.ret.obj), r.log),
         r.sent)

\* place_order without the tests of lines 142 and 144: price and timeInForce
\* are always put into data
place_order_nulls(symbol, side, quantity, order_type, price, tif, now, resp) ==
    LET d1 == <<<<"symbol", PyStr(symbol)>>, <<"side", side>>,
                <<"quantity", quantity>>, <<"type", order_type>>>>
        d2 == DictPut(d1, "price", price)
        d3 == DictPut(d2, "timeInForce", tif)
        d4 == DictPut(d3, "timestamp", PyInt(now))
        data == DictPut(d4, "signature", generate_signature(SecretKey, d4))
    IN  OrderResult(make_request("POST", "/fapi/v1/order", data, resp))

place_order(symbol, side, quantity, order_type, price, tif, now, resp) ==
    LET d1 == <<<<"symbol", PyStr(symbol)>>, <<"side", side>>,
                <<"quantity", quantity>>, <<"type", order_type>>>>
        d2 == IF price # PyNone THEN DictPut(d1, "price", price) ELSE d1
        d3 == IF tif # PyNone THEN DictPut(d2, "timeInForce", tif) ELSE d2
        d4 == DictPut(d3, "timestamp", PyInt(now))
        data == DictPut(d4, "signature", generate_signature(SecretKey, d4))
    IN  OrderResult(make_request("POST", "/fapi/v1/order", data, resp))

cancel_order(symbol, order_id, now, resp) ==
    LET d1 == <<<<"orderId", order_id>>, <<"symbol", PyStr(symbol)>>,
                <<"timestamp", PyInt(now)>>>>
        data == DictPut(d1, "signature", generate_signature(SecretKey, d1))
    IN  OrderResult(make_request("DELETE", "/fapi/v1/order", data, resp))

\* get_order_status with line 176 moved up before line 175: the signature is
\* computed before orderId is put into data
get_order_status_signearly(symbol, order_id, now, resp) ==
    LET d1 == <<<<"timestamp", PyInt(now)>>, <<"symbol", PyStr(symbol)>>>>
        d2 == DictPut(d1, "signature", generate_signature(SecretKey, d1))
        data == DictPut(d2, "orderId", order_id)
    IN  OrderResult(make_request("GET", "/fapi/v1/order", data, resp))

get_order_status(symbol, order_id, now, resp) ==
    LET d1 == <<<<"timestamp", PyInt(now)>>, <<"symbol", PyStr(symbol)>>,
                <<"orderId", order_id>>>>
        data == DictPut(d1, "signature", generate_signature(SecretKey, d1))
    IN  OrderResult(make_request("GET", "/fapi/v1/order", data, resp))

----------------------------------------------------------------------------
(* State after lines 26-38 of __init__ *)

NoOp == [op |-> "none", symbol |-> <<>>, args |-> <<>>, resp |-> NoResp, exc |-> "none",
         ret |-> PyNone, log |-> <<>>, sent |-> <<>>]
NoMsg == [msg |-> NotJson, exc |-> "none", handled |-> FALSE]
NoSub == [method |-> "none", params |-> <<>>, id |-> 0]

Init ==
    /\ pc = "ctor_contracts"
    /\ contracts = Unset
    /\ balances = Unset
    /\ prices = [s \in {} |-> [bid |-> 0, ask |-> 0]]
    /\ ws_id = 1
    /\ ws = "None"
    /\ lastOp = NoOp
    /\ wpc = "off"
    /\ wlast = NoMsg
    /\ sub = NoSub
    /\ fsub = NoSub
    /\ tmp = [fg |-> 0, stream |-> 0]
    /\ slog = <<>>
    /\ wsent = <<>>
    /\ fresh = [rest |-> TRUE, stream |-> TRUE]

\* the outcome r of operation op called with args (after the contract), as
\* the caller sees it
Outcome(op, symbol, args, resp, r) ==
    [op |-> op, symbol |-> symbol, args |-> args, resp |-> resp, exc |-> r.exc,
     ret |-> r.ret, log |-> r.log, sent |-> r.sent]

----------------------------------------------------------------------------
(* __init__, lines 39-45 *)

CtorContracts ==
    /\ pc = "ctor_contracts"
    /\ \E resp \in Responses("get_contracts") :
         LET r == get_contracts(resp)
         IN  /\ lastOp' = Outcome("get_contracts", <<>>, <<>>, resp, r)
             /\ IF r.exc = "none"
                THEN contracts' = r.ret /\ pc' = "ctor_balances"
                ELSE contracts' = contracts /\ pc' = "aborted"
    /\ UNCHANGED <<balances, prices, ws_id, ws, wpc, wlast, sub,
                   fsub, tmp, slog, wsent, fresh>>

CtorBalances ==
    /\ pc = "ctor_balances"
    /\ \E now \in Times, resp \in Responses("get_balances") :
         LET r == get_balances(now, resp)
         IN  /\ lastOp' = Outcome("get_balances", <<>>, <<>>, resp, r)
             /\ IF r.exc = "none"
                THEN balances' = r.ret /\ pc' = "ctor_thread"
                ELSE balances' = balances /\ pc' = "aborted"
    /\ UNCHANGED <<contracts, prices, ws_id, ws, wpc, wlast, sub,
                   fsub, tmp, slog, wsent, fresh>>

\* __init__ with the thread started (line 43) before line 40
CtorStartThread_early ==
    /\ pc \in {"ctor_balances", "ctor_thread"}
    /\ wpc = "off"
    /\ pc' = IF pc = "ctor_thread" THEN "idle" ELSE pc
    /\ wpc' = "started"
    /\ UNCHANGED <<contracts, balances, prices, ws_id, ws, lastOp, wlast, sub,
                   fsub, tmp, slog,
                   wsent, fresh>>

\* self.logs = []; threading.Thread(target=self._start_ws).start()
CtorStartThread ==
    /\ pc = "ctor_thread"
    /\ pc' = "idle"
    /\ wpc' = "started"
    /\ UNCHANGED <<contracts, balances, prices, ws_id, ws, lastOp, wlast, sub,
                   fsub, tmp, slog,
                   wsent, fresh>>

----------------------------------------------------------------------------
(* REST operations called on the constructed client.  Those that touch no  *)
(* shared state are one step.                                              *)

Sides == {PyStr(<<"B", "U", "Y">>)}
Quantities == {PyInt(1)}
OrderTypes == {PyStr(<<"L", "I", "M", "I", "T">>)}
\* price and tif default to None; a price is passed as a number or as the
\* decimal string the exchange documents
OptPrices == {PyNone, PyInt(100), PyStr(<<"1", "0", "0">>)}
OptTifs == {PyNone, PyStr(<<"G", "T", "C">>)}
OrderIds == {PyInt(7)}
Intervals == {PyStr(<<"1", "h">>)}

RestDone(op, symbol, args, resp, r) ==
    /\ lastOp' = Outcome(op, symbol, args, resp, r)
    /\ fresh' = [fresh EXCEPT !.rest = TRUE]
    /\ UNCHANGED <<pc, contracts, balances, prices, ws_id, ws, wpc, wlast, sub,
                   fsub, tmp, slog, wsent>>

GetContracts ==
    /\ pc = "idle"
    /\ \E resp \in Responses("get_contracts") :
         RestDone("get_contracts", <<>>, <<>>, resp, get_contracts(resp))

GetHistoricalCandles ==
    /\ pc = "idle"
    /\ \E symbol \in Symbols, interval \in Intervals,
          resp \in Responses("get_historical_candles") :
         RestDone("get_historical_candles", symbol, <<<<"interval", interval>>>>, resp,
                  get_historical_candles(symbol, interval, resp))

GetBalances ==
    /\ pc = "idle"
    /\ \E now \in Times, resp \in Responses("get_balances") :
         RestDone("get_balances", <<>>, <<>>, resp, get_balances(now, resp))

PlaceOrder ==
    /\ pc = "idle"
    /\ \E symbol \in Symbols, side \in Sides, quantity \in Quantities,
          order_type \in OrderTypes, price \in OptPrices, tif \in OptTifs,
          now \in Times, resp \in Responses("place_order") :
         RestDone("place_order", symbol,
                  <<<<"side", side>>, <<"quantity", quantity>>,
                    <<"order_type", order_type>>, <<"price", price>>,
                    <<"tif", tif>>>>, resp,
                  place_order(symbol, side, quantity, order_type, price, tif, now, resp))

CancelOrder ==
    /\ pc = "idle"
    /\ \E symbol \in Symbols, order_id \in OrderIds, now \in Times,
          resp \in Responses("cancel_order") :
         RestDone("cancel_order", symbol, <<<<"order_id", order_id>>>>, resp,
                  cancel_order(symbol, order_id, now, resp))

GetOrderStatus ==
    /\ pc = "idle"
    /\ \E symbol \in Symbols, order_id \in OrderIds, now \in Times,
          resp \in Responses("get_order_status") :
         RestDone("get_order_status", symbol, <<<<"order_id", order_id>>>>, resp,
                  get_order_status(symbol, order_id, now, resp))

\* _make_request called directly, as code inside the package can
Methods == {"GET", "POST", "DELETE", "PUT", "get"}

MakeRequest ==
    /\ pc = "idle"
    /\ \E method \in Methods, symbol \in Symbols, resp \in Responses("get_order_status") :
         LET r == make_request(method, "/fapi/v1/order",
                               DictPut(<<>>, "symbol", PyStr(symbol)), resp)
         IN  \* a call that makes no request gets no response
             RestDone("_make_request", symbol, <<<<"method", method>>>>,
                      IF r.sent = <<>> THEN NoResp ELSE resp, r)

\* parameter mappings handed to _generate_signature: a symbol and a price, the
\* price as a number or as a decimal string, in either order
SignPrices == {PyInt(100), PyStr(<<"1", "0", "0">>), PyInt(101),
               PyStr(<<"1", " ", "0">>), PyStr(<<"1", "+", "0">>)}
SignData ==
    { <<<<"symbol", PyStr(s)>>, <<"price", p>>>> : s \in Symbols, p \in SignPrices }
    \cup { <<<<"price", p>>, <<"symbol", PyStr(BTCUSDT)>>>> : p \in SignPrices }

\* _generate_signature called directly
GenerateSignature ==
    /\ pc = "idle"
    /\ \E data \in SignData :
         RestDone("_generate_signature", <<>>, <<<<"data", data>>>>, NoResp,
                  Sent(Returns(generate_signature(SecretKey, data), <<>>), <<>>))

----------------------------------------------------------------------------
(* The price cache, self.prices *)

\* self.prices[symbol] = entry
PutPrice(p, symbol, entry) ==
    [x \in (DOMAIN p) \cup {symbol} |-> IF x = symbol THEN entry ELSE p[x]]

\* the symbol whose upsert the foreground thread / the stream thread made last
RestSym == IF lastOp.op = "get_bid_ask" THEN lastOp.symbol ELSE <<>>
StreamSym ==
    IF IsJson(wlast.msg) /\ "obj" \in DOMAIN wlast.msg
       /\ "s" \in DOMAIN wlast.msg.obj
    THEN wlast.msg.obj.s ELSE <<>>

\* history kept on a write of the foreground thread / of the stream thread:
\* the other writer's last upsert of that symbol has been written over
StaleStream(symbol) ==
    [fresh EXCEPT !.stream = IF StreamSym = symbol THEN FALSE ELSE @]
StaleRest(symbol) ==
    [fresh EXCEPT !.rest = IF RestSym = symbol THEN FALSE ELSE @]

----------------------------------------------------------------------------
(* get_bid_ask, lines 107-119, statement by statement *)

\* float(d[key]): "none", or the exception it raises
FloatExc(d, key) ==
    IF key \notin DOMAIN d THEN "KeyError"
    ELSE IF ~FloatOk(d[key]) THEN "ValueError"
    ELSE "none"

GbaRaise(e) ==
    /\ lastOp' = [lastOp EXCEPT !.exc = e]
    /\ pc' = "idle"
    /\ UNCHANGED <<prices, fresh>>

\* lines 108-113: the request, and the test `contract.symbol not in self.prices`
GbaRequest ==
    /\ pc = "idle"
    /\ \E symbol \in Symbols, resp \in Responses("get_bid_ask") :
         /\ (resp.kind = "http" /\ "obj" \in DOMAIN resp.body
             /\ "symbol" \in DOMAIN resp.body.obj) => resp.body.obj.symbol = symbol
         /\ LET data == DictPut(<<>>, "symbol", PyStr(symbol))
                r == make_request("GET", "/fapi/v1/ticker/bookTicker", data, resp)
            IN  /\ lastOp' = Outcome("get_bid_ask", symbol, <<>>, resp,
                                      Sent(IF r.exc = "none"
                                           THEN Returns(PyNone, r.log)
                                           ELSE r, r.sent))
                /\ pc' = IF r.exc # "none" \/ r.ret = PyNone THEN "idle"
                         ELSE IF symbol \notin DOMAIN prices THEN "gba_create"
                         ELSE "gba_bid"
    /\ fresh' = [fresh EXCEPT !.rest = TRUE]
    /\ UNCHANGED <<contracts, balances, prices, ws_id, ws, wpc, wlast, sub,
                   fsub, tmp, slog, wsent>>

\* line 114
GbaCreate ==
    /\ pc = "gba_create"
    /\ LET d == lastOp.resp.body.obj
           eb == FloatExc(d, "bidPrice")
           ea == FloatExc(d, "askPrice")
       IN  IF eb # "none" THEN GbaRaise(eb)
           ELSE IF ea # "none" THEN GbaRaise(ea)
           ELSE /\ prices' = PutPrice(prices, lastOp.symbol,
                                      [bid |-> Float(d.bidPrice), ask |-> Float(d.askPrice)])
                /\ fresh' = StaleStream(lastOp.symbol)
                /\ pc' = "gba_ret"
                /\ UNCHANGED lastOp
    /\ UNCHANGED <<contracts, balances, ws_id, ws, wpc, wlast, sub,
                   fsub, tmp, slog, wsent>>

\* line 116
GbaBid ==
    /\ pc = "gba_bid"
    /\ LET d == lastOp.resp.body.obj
           eb == FloatExc(d, "bidPrice")
       IN  IF eb # "none" THEN GbaRaise(eb)
           ELSE /\ prices' = [prices EXCEPT ![lastOp.symbol].bid = Float(d.bidPrice)]
                /\ fresh' = StaleStream(lastOp.symbol)
                /\ pc' = "gba_ask"
                /\ UNCHANGED lastOp
    /\ UNCHANGED <<contracts, balances, ws_id, ws, wpc, wlast, sub,
                   fsub, tmp, slog, wsent>>

\* line 117
GbaAsk ==
    /\ pc = "gba_ask"
    /\ LET d == lastOp.resp.body.obj
           ea == FloatExc(d, "askPrice")
       IN  IF ea # "none" THEN GbaRaise(ea)
           ELSE /\ prices' = [prices EXCEPT ![lastOp.symbol].ask = Float(d.askPrice)]
                /\ fresh' = StaleStream(lastOp.symbol)
                /\ pc' = "gba_ret"
                /\ UNCHANGED lastOp
    /\ UNCHANGED <<contracts, balances, ws_id, ws, wpc, wlast, sub,
                   fsub, tmp, slog, wsent>>

\* line 119: return self.prices[contract.symbol]
GbaReturn ==
    /\ pc = "gba_ret"
    /\ lastOp' = [lastOp EXCEPT !.ret = prices[lastOp.symbol]]
    /\ pc' = "idle"
    /\ UNCHANGED <<contracts, balances, prices, ws_id, ws, wpc, wlast, sub,
                   fsub, tmp, slog, wsent,
                   fresh>>

----------------------------------------------------------------------------
(* Messages the websocket can deliver *)

WsMessages ==
    { JsonObj([e |-> "bookTicker", s |-> s, b |-> StreamTick(s)[1], a |-> StreamTick(s)[2]]) :
        s \in Symbols }
    \cup { JsonObj([e |-> "bookTicker", b |-> "3", a |-> "4.5"]),
           JsonObj([e |-> "bookTicker", s |-> BTCUSDT, a |-> "4.5"]),
           JsonObj([e |-> "bookTicker", s |-> BTCUSDT, b |-> "3.0"]),
           JsonObj([e |-> "bookTicker", s |-> BTCUSDT, b |-> "3.0", a |-> BadPriceStr]),
           JsonObj([e |-> "aggTrade", s |-> BTCUSDT, b |-> "3", a |-> "4.5"]),
           JsonObj([result |-> "null", id |-> 1]),
           [num |-> 5],
           NotJson }

----------------------------------------------------------------------------
(* _start_ws, lines 185-193, and the connection callbacks *)

\* line 186: self.ws = websocket.WebSocketApp(...)
WsCreate ==
    /\ wpc = "started"
    /\ ws' = "app"
    /\ wpc' = "created"
    /\ UNCHANGED <<pc, contracts, balances, prices, ws_id, lastOp, wlast, sub,
                   fsub, tmp, slog, wsent,
                   fresh>>

\* line 190, first iteration: self.ws.run_forever()
RunForever ==
    /\ wpc = "created"
    /\ wpc' = "connecting"
    /\ UNCHANGED <<pc, contracts, balances, prices, ws_id, ws, lastOp, wlast, sub,
                   fsub, tmp, slog,
                   wsent, fresh>>

\* _start_ws beginning every new attempt with an empty price cache
Retry_clear ==
    /\ wpc = "sleep"
    /\ wpc' = "connecting"
    /\ wlast' = NoMsg
    /\ prices' = [s \in {} |-> [bid |-> 0, ask |-> 0]]
    /\ fresh' = [fresh EXCEPT !.stream = TRUE]
    /\ UNCHANGED <<pc, contracts, balances, ws_id, ws, lastOp, sub, fsub, tmp, slog,
                   wsent>>

\* line 193 and line 190 of the next iteration: time.sleep(2) returns and the
\* loop calls run_forever() again
Retry ==
    /\ wpc = "sleep"
    /\ wpc' = "connecting"
    /\ wlast' = NoMsg
    /\ fresh' = [fresh EXCEPT !.stream = TRUE]
    /\ UNCHANGED <<pc, contracts, balances, prices, ws_id, ws, lastOp, sub,
                   fsub, tmp, slog, wsent>>

\* _start_ws with the time.sleep(2) of line 193 inside the except clause only:
\* a connection that ends without an exception is followed by the next attempt
ConnEnd_nosleep ==
    /\ wpc \in {"connecting", "open"}
    /\ wpc' \in {"sleep", "connecting"}
    /\ UNCHANGED <<pc, contracts, balances, prices, ws_id, ws, lastOp, wlast, sub,
                   fsub, tmp, slog,
                   wsent, fresh>>

\* A connection, or an attempt at one, ends: after _on_close (line 202) or
\* _on_error (line 205) run_forever returns, or it raises and line 192 logs
\* the exception; all three leave the try statement for line 193.
ConnEnd ==
    /\ wpc \in {"connecting", "open"}
    /\ wpc' = "sleep"
    /\ UNCHANGED <<pc, contracts, balances, prices, ws_id, ws, lastOp, wlast, sub,
                   fsub, tmp, slog,
                   wsent, fresh>>

\* line 228 without .lower()
SubscribeData_nolower(contract_list, channel, id) ==
    [method |-> "SUBSCRIBE",
     params |-> [i \in 1..Len(contract_list) |->
                   contract_list[i].symbol \o <<"@">> \o channel],
     id |-> id]

\* lines 223-229: the request subscribe_channel builds
SubscribeData(contract_list, channel, id) ==
    [method |-> "SUBSCRIBE",
     params |-> [i \in 1..Len(contract_list) |->
                   Lower(contract_list[i].symbol) \o <<"@">> \o channel],
     id |-> id]

BookTicker == <<"b", "o", "o", "k", "T", "i", "c", "k", "e", "r">>

\* _on_open, lines 196-197, into subscribe_channel up to line 229
OnOpen ==
    /\ wpc = "connecting"
    /\ ws_id < MaxWsId
    /\ sub' = SubscribeData(DictValues(contracts.items), BookTicker, ws_id)
    /\ wsent' = <<>>
    /\ wpc' = "sub_send"
    /\ UNCHANGED <<pc, contracts, balances, prices, ws_id, ws, lastOp, wlast, fsub,
                   tmp, slog, fresh>>

\* lines 231-232: self.ws.send(json.dumps(data)) on the connection that has
\* just been opened
SubSend ==
    /\ wpc = "sub_send"
    /\ wsent' = Append(wsent, sub)
    /\ wpc' = "sub_inc"
    /\ UNCHANGED <<pc, contracts, balances, prices, ws_id, ws, lastOp, wlast, sub,
                   fsub, tmp, slog, fresh>>

\* the entry line 234 writes
SubLog(thread, data, e) ==
    [level |-> "error", thread |-> thread, id |-> data.id, exc |-> e]

\* lines 231-234 when the connection has gone since it was opened: send
\* raises, the exception is caught and logged
SubSendFail ==
    /\ wpc = "sub_send"
    /\ wsent' = Append(wsent, sub)
    /\ slog' = Append(slog, SubLog("stream", sub, "WebSocketConnectionClosedException"))
    /\ wpc' = "sub_inc"
    /\ UNCHANGED <<pc, contracts, balances, prices, ws_id, ws, lastOp, wlast, sub,
                   fsub, tmp, fresh>>

\* line 235, self.ws_id += 1: the attribute is loaded ...
SubLoad ==
    /\ wpc = "sub_inc"
    /\ tmp' = [tmp EXCEPT !.stream = ws_id]
    /\ wpc' = "sub_store"
    /\ UNCHANGED <<pc, contracts, balances, prices, ws_id, ws, lastOp, wlast, sub,
                   fsub, slog, wsent, fresh>>

\* ... and the sum is stored; _on_open returns
SubInc ==
    /\ wpc = "sub_store"
    /\ ws_id' = tmp.stream + 1
    /\ sub' = NoSub
    /\ tmp' = [tmp EXCEPT !.stream = 0]
    /\ wpc' = "open"
    /\ UNCHANGED <<pc, contracts, balances, prices, ws, lastOp, wlast, fsub, slog,
                   wsent, fresh>>

----------------------------------------------------------------------------
(* subscribe_channel called by the foreground thread, lines 222-235 *)

AggTrade == <<"a", "g", "g", "T", "r", "a", "d", "e">>
Channels == {BookTicker, AggTrade}

\* the socket of self.ws is connected
Connected == wpc \in {"sub_send", "sub_inc", "sub_store", "open",
                      "msg_create", "msg_bid", "msg_ask"}

\* lines 223-229: data is built; line 229 reads self.ws_id
FgSubscribe ==
    /\ pc = "idle"
    /\ ws_id < MaxWsId
    /\ \E channel \in Channels :
         /\ fsub' = SubscribeData(DictValues(contracts.items), channel, ws_id)
         /\ lastOp' = Outcome("subscribe_channel", <<>>, <<<<"channel", channel>>>>,
                              NoResp, Sent(Returns(PyNone, <<>>), <<>>))
    /\ pc' = "fsub_send"
    /\ fresh' = [fresh EXCEPT !.rest = TRUE]
    /\ UNCHANGED <<contracts, balances, prices, ws_id, ws, wpc, wlast, sub, tmp,
                   slog, wsent>>

\* lines 231-234: self.ws.send(json.dumps(data)).  self.ws is None until the
\* stream thread has run line 186 (AttributeError); send raises when the
\* socket is not connected; while a connection is being made either happens.
\* The exception is caught and logged.
FgSend ==
    /\ pc = "fsub_send"
    /\ \/ /\ ws = "None"
          /\ slog' = Append(slog, SubLog("fg", fsub, "AttributeError"))
          /\ UNCHANGED wsent
       \/ /\ ws # "None" /\ (Connected \/ wpc = "connecting")
          /\ wsent' = Append(wsent, fsub)
          /\ UNCHANGED slog
       \/ /\ ws # "None" /\ ~Connected
          /\ wsent' = Append(wsent, fsub)
          /\ slog' = Append(slog, SubLog("fg", fsub,
                                         "WebSocketConnectionClosedException"))
    /\ pc' = "fsub_inc"
    /\ UNCHANGED <<contracts, balances, prices, ws_id, ws, lastOp, wpc, wlast, sub,
                   fsub, tmp, fresh>>

\* line 235, self.ws_id += 1: the attribute is loaded ...
FgLoad ==
    /\ pc = "fsub_inc"
    /\ tmp' = [tmp EXCEPT !.fg = ws_id]
    /\ pc' = "fsub_store"
    /\ UNCHANGED <<contracts, balances, prices, ws_id, ws, lastOp, wpc, wlast, sub,
                   fsub, slog, wsent, fresh>>

\* ... and the sum is stored; subscribe_channel returns
FgInc ==
    /\ pc = "fsub_store"
    /\ ws_id' = tmp.fg + 1
    /\ fsub' = NoSub
    /\ tmp' = [tmp EXCEPT !.fg = 0]
    /\ pc' = "idle"
    /\ UNCHANGED <<contracts, balances, prices, ws, lastOp, wpc, wlast, sub, slog,
                   wsent, fresh>>

----------------------------------------------------------------------------
(* _on_message, lines 207-217, statement by statement *)

\* An exception that leaves a callback is caught by the websocket library and
\* reported to _on_error; the connection goes on, or run_forever ends.
MsgRaise(e) ==
    /\ wlast' = [wlast EXCEPT !.exc = e, !.handled = TRUE]
    /\ wpc' \in {"open", "sleep"}

\* the exception lines 208-212 raise on msg, or "none"
DecodeExc(msg) ==
    IF ~IsJson(msg) THEN "JSONDecodeError"
    ELSE IF "num" \in DOMAIN msg THEN "TypeError"
    ELSE IF "e" \notin DOMAIN msg.obj THEN "none"
    ELSE IF msg.obj.e # "bookTicker" THEN "none"
    ELSE IF "s" \notin DOMAIN msg.obj THEN "KeyError"
    ELSE "none"

\* lines 210-211 select the message
IsBookTickerMsg(msg) ==
    /\ IsJson(msg) /\ "obj" \in DOMAIN msg
    /\ "e" \in DOMAIN msg.obj /\ msg.obj.e = "bookTicker"

\* lines 208-213: decode, select, and the test `symbol not in self.prices`
OnMessage ==
    /\ wpc = "open"
    /\ \E msg \in WsMessages :
         LET e == DecodeExc(msg)
         IN  /\ fresh' = [fresh EXCEPT !.stream = TRUE]
             /\ IF e # "none"
                THEN /\ wlast' = [msg |-> msg, exc |-> e, handled |-> TRUE]
                                      /\ wpc' \in {"open", "sleep"}
                ELSE IF ~IsBookTickerMsg(msg)
                THEN /\ wlast' = [msg |-> msg, exc |-> "none", handled |-> TRUE]
                     /\ UNCHANGED <<wpc>>
                ELSE /\ wlast' = [msg |-> msg, exc |-> "none", handled |-> FALSE]
                     /\ wpc' = IF msg.obj.s \notin DOMAIN prices THEN "msg_create"
                               ELSE "msg_bid"
    /\ UNCHANGED <<pc, contracts, balances, prices, ws_id, ws, lastOp, sub,
                   fsub, tmp, slog, wsent>>

MsgDone ==
    /\ wlast' = [wlast EXCEPT !.handled = TRUE]
    /\ wpc' = "open"

\* line 214
MsgCreate ==
    /\ wpc = "msg_create"
    /\ LET d == wlast.msg.obj
           eb == FloatExc(d, "b")
           ea == FloatExc(d, "a")
       IN  IF eb # "none" THEN MsgRaise(eb) /\ UNCHANGED <<prices, fresh>>
           ELSE IF ea # "none" THEN MsgRaise(ea) /\ UNCHANGED <<prices, fresh>>
           ELSE /\ prices' = PutPrice(prices, d.s, [bid |-> Float(d.b), ask |-> Float(d.a)])
                /\ fresh' = StaleRest(d.s)
                /\ MsgDone
    /\ UNCHANGED <<pc, contracts, balances, ws_id, ws, lastOp, sub,
                   fsub, tmp, slog, wsent>>

\* line 216
MsgBid ==
    /\ wpc = "msg_bid"
    /\ LET d == wlast.msg.obj
           eb == FloatExc(d, "b")
       IN  IF eb # "none" THEN MsgRaise(eb) /\ UNCHANGED <<prices, fresh>>
           ELSE /\ prices' = [prices EXCEPT ![d.s].bid = Float(d.b)]
                /\ fresh' = StaleRest(d.s)
                /\ wpc' = "msg_ask"
                /\ UNCHANGED <<wlast>>
    /\ UNCHANGED <<pc, contracts, balances, ws_id, ws, lastOp, sub,
                   fsub, tmp, slog, wsent>>

\* line 217 writing the ask into the 'bid' field
MsgAsk_intobid ==
    /\ wpc = "msg_ask"
    /\ LET d == wlast.msg.obj
           ea == FloatExc(d, "a")
       IN  IF ea # "none" THEN MsgRaise(ea) /\ UNCHANGED <<prices, fresh>>
           ELSE /\ prices' = [prices EXCEPT ![d.s].bid = Float(d.a)]
                /\ fresh' = StaleRest(d.s)
                /\ MsgDone
    /\ UNCHANGED <<pc, contracts, balances, ws_id, ws, lastOp, sub,
                   fsub, tmp, slog, wsent>>

\* line 217
MsgAsk ==
    /\ wpc = "msg_ask"
    /\ LET d == wlast.msg.obj
           ea == FloatExc(d, "a")
       IN  IF ea # "none" THEN MsgRaise(ea) /\ UNCHANGED <<prices, fresh>>
           ELSE /\ prices' = [prices EXCEPT ![d.s].ask = Float(d.a)]
                /\ fresh' = StaleRest(d.s)
                /\ MsgDone
    /\ UNCHANGED <<pc, contracts, balances, ws_id, ws, lastOp, sub,
                   fsub, tmp, slog, wsent>>

----------------------------------------------------------------------------
(* Specifications *)

StreamThread ==
    \/ WsCreate \/ RunForever \/ Retry \/ ConnEnd
    \/ OnOpen \/ SubSend \/ SubLoad \/ SubInc
    \/ OnMessage \/ MsgCreate \/ MsgBid \/ MsgAsk

\* the client and its two threads: construction, get_bid_ask, the stream
Next ==
    \/ CtorContracts \/ CtorBalances \/ CtorStartThread
    \/ GbaRequest \/ GbaCreate \/ GbaBid \/ GbaAsk \/ GbaReturn
    \/ WsCreate \/ RunForever \/ Retry \/ ConnEnd
    \/ OnOpen \/ SubSend \/ SubLoad \/ SubInc
    \/ OnMessage \/ MsgCreate \/ MsgBid \/ MsgAsk

Spec == Init /\ [][Next]_vars

\* the foreground thread alone: construction and every REST operation
RestNext ==
    \/ CtorContracts \/ CtorBalances \/ CtorStartThread
    \/ GetContracts \/ GetHistoricalCandles \/ GetBalances
    \/ PlaceOrder \/ CancelOrder \/ GetOrderStatus \/ MakeRequest
    \/ GbaRequest \/ GbaCreate \/ GbaBid \/ GbaAsk \/ GbaReturn

RestSpec == Init /\ [][RestNext]_vars

\* construction, signing, and the stream thread changing the client's state
\* between two signings
SignNext ==
    \/ CtorContracts \/ CtorBalances \/ CtorStartThread
    \/ GenerateSignature
    \/ WsCreate \/ RunForever \/ Retry \/ ConnEnd
    \/ OnOpen \/ SubSend \/ SubLoad \/ SubInc
    \/ OnMessage \/ MsgCreate \/ MsgBid \/ MsgAsk

SignSpec == Init /\ [][SignNext]_vars

\* construction, the stream thread without its message handler, and
\* subscribe_channel called by the foreground thread
SubNext ==
    \/ CtorContracts \/ CtorBalances \/ CtorStartThread
    \/ FgSubscribe \/ FgSend \/ FgLoad \/ FgInc
    \/ WsCreate \/ RunForever \/ Retry \/ ConnEnd
    \/ OnOpen \/ SubSend \/ SubSendFail \/ SubLoad \/ SubInc

SubSpec == Init /\ [][SubNext]_vars

\* construction and the stream thread
StreamNext ==
    \/ CtorContracts \/ CtorBalances \/ CtorStartThread
    \/ WsCreate \/ RunForever \/ Retry \/ ConnEnd
    \/ OnOpen \/ SubSend \/ SubLoad \/ SubInc
    \/ OnMessage \/ MsgCreate \/ MsgBid \/ MsgAsk

StreamSpec == Init /\ [][StreamNext]_vars

\* The stream thread is a thread of its own that nothing stops: a call it has
\* reached is made, and time.sleep(2) returns.
FairStreamSpec ==
    StreamSpec /\ WF_vars(WsCreate) /\ WF_vars(RunForever) /\ WF_vars(Retry)

----------------------------------------------------------------------------
(* Properties of the REST layer *)

\* the value each operation documents for "no result"
Absence(op) ==
    CASE op \in {"get_contracts", "get_balances"} -> PyDict(<<>>)
      [] op = "get_historical_candles" -> PyList(<<>>)
      [] OTHER -> PyNone

\* the foreground thread is not inside a call
Returned == pc \in {"idle", "ctor_balances", "ctor_thread", "aborted"}

\* C1: a REST operation whose HTTP call fails at transport level returns its
\* absence value (empty dict for contracts and balances, empty list for
\* candles, None for the others), writes exactly one error log entry and
\* raises nothing.
C1_TransportFailureIsAbsence ==
    (Returned /\ lastOp.resp.kind = "transport") =>
        /\ lastOp.exc = "none"
        /\ lastOp.ret = Absence(lastOp.op)
        /\ Len(lastOp.log) = 1
        /\ lastOp.log[1].level = "error"

C1_Witness ==
    /\ pc = "idle"
    /\ lastOp.op = "get_historical_candles"
    /\ lastOp.resp.kind = "transport"
    /\ lastOp.ret = PyList(<<>>)
    /\ Len(lastOp.log) = 1

\* C2: a response whose status is not 200 makes the operation return its
\* absence value and log the status code, without raising, whatever the body.
C2_Non200IsAbsence ==
    (Returned /\ lastOp.resp.kind = "http" /\ lastOp.resp.status # StatusOk) =>
        /\ lastOp.exc = "none"
        /\ lastOp.ret = Absence(lastOp.op)
        /\ \E i \in 1..Len(lastOp.log) : lastOp.log[i].code = lastOp.resp.status

\* a status-200 body that is not JSON, or lacks a field the operation reads
Malformed200(op, resp) ==
    /\ resp.kind = "http" /\ resp.status = StatusOk
    /\ \/ ~IsJson(resp.body)
       \/ op = "get_contracts" /\ "symbols" \notin DOMAIN resp.body.obj
       \/ op = "get_balances" /\ "assets" \notin DOMAIN resp.body.obj
       \/ op = "get_bid_ask" /\ "bidPrice" \notin DOMAIN resp.body.obj

\* C3: a status-200 response whose body is malformed JSON or lacks the
\* expected fields makes the operation return its absence value without
\* raising.
C3_Malformed200IsAbsence ==
    (Returned /\ Malformed200(lastOp.op, lastOp.resp)) =>
        /\ lastOp.exc = "none"
        /\ lastOp.ret = Absence(lastOp.op)

\* the response is a transport error or carries a status other than 200
FailedResp(resp) ==
    resp.kind = "transport" \/ (resp.kind = "http" /\ resp.status # StatusOk)

\* C4: a get_bid_ask that fails (transport error or non-200 status) returns
\* nothing and leaves the whole price cache unchanged.
C4_FailedBidAskLeavesCache ==
    [][ (pc = "idle" /\ lastOp' # lastOp /\ lastOp'.op = "get_bid_ask"
         /\ FailedResp(lastOp'.resp))
        => (prices' = prices /\ lastOp'.exc = "none" /\ lastOp'.ret = PyNone) ]_vars

----------------------------------------------------------------------------
(* Properties of the price cache and of stream dispatch *)

\* the entry a writer makes from the decimal strings b and a
Entry(b, a) == [bid |-> Float(b), ask |-> Float(a)]

\* this step changes, creates or deletes the entry of symbol
Changed(symbol) ==
    \/ (symbol \in DOMAIN prices) # (symbol \in DOMAIN prices')
    \/ symbol \in DOMAIN prices /\ prices'[symbol] # prices[symbol]

\* the step is one of the foreground thread / of the stream thread
RestStep == pc' # pc \/ lastOp' # lastOp
StreamStep == wpc' # wpc \/ wlast' # wlast

HandlerPcs == {"msg_create", "msg_bid", "msg_ask"}

\* get_bid_ask has written its entry (and may have returned it)
RestUpsertDone ==
    /\ lastOp.op = "get_bid_ask"
    /\ pc = "gba_ret" \/ (pc = "idle" /\ lastOp.exc = "none" /\ lastOp.ret # PyNone)

\* _on_message has written the entry of a book-ticker message
StreamUpsertDone ==
    wlast.handled /\ wlast.exc = "none" /\ IsBookTickerMsg(wlast.msg)

\* C5: a price-cache write for a symbol creates the entry if absent and
\* otherwise overwrites both bid and ask; with no other write in between, a
\* following read of that symbol returns exactly the written bid and ask; the
\* entries of all other symbols are unchanged by the write.
C5_UpsertThenGet ==
    /\ [](RestUpsertDone /\ fresh.rest =>
            /\ lastOp.symbol \in DOMAIN prices
            /\ prices[lastOp.symbol] = Entry(lastOp.resp.body.obj.bidPrice,
                                             lastOp.resp.body.obj.askPrice))
    /\ [](StreamUpsertDone /\ fresh.stream =>
            /\ wlast.msg.obj.s \in DOMAIN prices
            /\ prices[wlast.msg.obj.s] = Entry(wlast.msg.obj.b, wlast.msg.obj.a))
    /\ [][ \A symbol \in Symbols : Changed(symbol) =>
             \/ RestStep /\ ~StreamStep /\ symbol = lastOp.symbol
             \/ StreamStep /\ ~RestStep /\ symbol = wlast.msg.obj.s ]_vars

C5_Witness ==
    /\ StreamUpsertDone /\ fresh.stream
    /\ wlast.msg.obj.s = BTCUSDT
    /\ lastOp.op = "get_bid_ask" /\ lastOp.symbol = BTCUSDT /\ pc = "idle"
    /\ lastOp.ret = [bid |-> 10, ask |-> 25]
    /\ ETHUSDT \in DOMAIN prices
    /\ prices[ETHUSDT] = [bid |-> 10, ask |-> 25]
    /\ prices[BTCUSDT] = [bid |-> 30, ask |-> 45]

\* a decodable message whose event type is missing or is not bookTicker: a
\* JSON value that is not an object has no event-type field
Ignorable(msg) ==
    /\ IsJson(msg)
    /\ \/ "obj" \notin DOMAIN msg
       \/ "e" \notin DOMAIN msg.obj
       \/ msg.obj.e # "bookTicker"

\* a JSON object whose event type is missing or is not bookTicker
IgnorableObject(msg) == Ignorable(msg) /\ "obj" \in DOMAIN msg

WellFormedTicker(msg) ==
    /\ IsJson(msg) /\ "obj" \in DOMAIN msg
    /\ {"e", "s", "b", "a"} \subseteq DOMAIN msg.obj
    /\ msg.obj.e = "bookTicker"
    /\ msg.obj.b \in {"3", "3.0", "4.5"} /\ msg.obj.a \in {"3", "3.0", "4.5"}

\* the step is _on_message returning normally with the cache left alone
IgnoredWithoutError ==
    prices' = prices /\ wlast'.exc = "none" /\ wlast'.handled /\ wpc' = "open"

\* a well-formed bookTicker message updates the entry of the symbol it names,
\* statement by statement, and no other entry
TickerApplied ==
    /\ [][ (wpc = "open" /\ wlast' # wlast /\ WellFormedTicker(wlast'.msg)) =>
             (prices' = prices /\ wlast'.exc = "none" /\ wpc' \in HandlerPcs) ]_vars
    /\ [][ (wpc \in HandlerPcs /\ StreamStep /\ WellFormedTicker(wlast.msg)) =>
             LET d == wlast.msg.obj
             IN  /\ wlast'.exc = "none" /\ wlast'.msg = wlast.msg
                 /\ \A symbol \in Symbols \ {d.s} : ~Changed(symbol)
                 /\ d.s \in DOMAIN prices'
                 /\ wpc = "msg_create" =>
                      prices'[d.s] = Entry(d.b, d.a) /\ wpc' = "open"
                 /\ wpc = "msg_bid" =>
                      /\ prices'[d.s] = [prices[d.s] EXCEPT !.bid = Float(d.b)]
                      /\ wpc' = "msg_ask"
                 /\ wpc = "msg_ask" =>
                      /\ prices'[d.s] = [prices[d.s] EXCEPT !.ask = Float(d.a)]
                      /\ wpc' = "open" ]_vars

\* C6: a well-formed bookTicker message updates the cache entry of exactly the
\* symbol it names and no other; a decodable message with any other event type
\* or with no event-type field leaves the price cache unchanged and raises no
\* error.
C6_Dispatch ==
    /\ TickerApplied
    /\ [][ (wpc = "open" /\ wlast' # wlast /\ Ignorable(wlast'.msg)) =>
             IgnoredWithoutError ]_vars

\* the same over JSON objects only: every object without a bookTicker event
\* type is ignored without error
C6_ObjectDispatch ==
    /\ TickerApplied
    /\ [][ (wpc = "open" /\ wlast' # wlast /\ IgnorableObject(wlast'.msg)) =>
             IgnoredWithoutError ]_vars

\* not decodable as JSON, or a bookTicker envelope missing symbol, bid or ask
MalformedMsg(msg) ==
    \/ ~IsJson(msg)
    \/ /\ "obj" \in DOMAIN msg /\ "e" \in DOMAIN msg.obj
       /\ msg.obj.e = "bookTicker"
       /\ ~({"s", "b", "a"} \subseteq DOMAIN msg.obj)

\* C7: a malformed stream message is dropped: it leaves the price cache
\* unchanged and does not stop the streaming manager.
C7_MalformedDropped ==
    [][ (wpc \in HandlerPcs \cup {"open"} /\ StreamStep /\ MalformedMsg(wlast'.msg)) =>
          (prices' = prices /\ wpc' \in HandlerPcs \cup {"open", "sleep"}) ]_vars

----------------------------------------------------------------------------
(* Properties of the streaming manager and of construction *)

\* "<lower-cased symbol>@bookTicker", written out
StreamName(symbol) ==
    IF symbol = BTCUSDT
    THEN <<"b", "t", "c", "u", "s", "d", "t", "@",
           "b", "o", "o", "k", "T", "i", "c", "k", "e", "r">>
    ELSE <<"e", "t", "h", "u", "s", "d", "t", "@",
           "b", "o", "o", "k", "T", "i", "c", "k", "e", "r">>

\* the stream thread is past the send of _on_open on the current connection
Subscribed == wpc \in {"sub_inc", "sub_store", "open"} \cup HandlerPcs

\* C8: on every connection-open event, the first and every one after a
\* reconnect, exactly one SUBSCRIBE request is issued, whose params list has
\* exactly one entry "<lower-cased symbol>@bookTicker" for each contract the
\* client knows, and no other entry.
C8_SubscribeOnOpen ==
    /\ wpc = "sub_send" => wsent = <<>>
    /\ Subscribed =>
         /\ Len(wsent) = 1
         /\ wsent[1].method = "SUBSCRIBE"
         /\ Len(wsent[1].params) = Len(contracts.items)
         /\ \A i \in 1..Len(contracts.items) :
              wsent[1].params[i] = StreamName(contracts.items[i][1])
         /\ \A i, j \in 1..Len(wsent[1].params) :
              i # j => wsent[1].params[i] # wsent[1].params[j]

C8_Witness ==
    /\ wpc = "open"
    /\ ws_id = 3
    /\ Len(wsent) = 1
    /\ wsent[1].id = 2
    /\ Len(wsent[1].params) = 2

\* positions of the stream thread inside run_forever()
ConnPcs == {"connecting", "sub_send", "sub_inc", "sub_store", "open"} \cup HandlerPcs

\* C9: the streaming manager has no terminal state: whenever the connection
\* ends, a new connection attempt eventually starts, and the retry delay is
\* taken between every two consecutive attempts, so that no attempt directly
\* follows the end of the previous one.
C9_ReconnectAfterDelay ==
    /\ [][ (wpc \in ConnPcs /\ wpc' \notin ConnPcs) => wpc' = "sleep" ]_vars
    /\ [][ (wpc' = "connecting" /\ wpc # "connecting") =>
             wpc \in {"created", "sleep"} ]_vars
    /\ [][ wpc' = "created" => wpc \in {"created", "started"} ]_vars
    /\ (wpc = "sleep") ~> (wpc = "connecting")

C9_Witness ==
    /\ wpc = "connecting"
    /\ ws_id = 2
    /\ Len(wsent) = 1

\* C10: construction is strictly ordered: the contracts request completes
\* before the balances request starts, and the streaming task is started only
\* after both have completed, also when either returned empty because of an
\* error; no connection attempt, subscription or stream-triggered cache write
\* happens before contracts and balances have been set.
C10_ConstructionOrder ==
    /\ (balances # Unset \/ lastOp.op = "get_balances") => contracts # Unset
    /\ (wpc # "off" \/ ws # "None" \/ wsent # <<>> \/ sub # NoSub \/ ws_id # 1
        \/ DOMAIN prices # {} \/ wlast # NoMsg)
       => (contracts # Unset /\ balances # Unset /\ pc = "idle")

C10_Witness ==
    /\ wpc = "open"
    /\ contracts = PyDict(<<>>)
    /\ balances = PyDict(<<>>)
    /\ lastOp.op = "get_balances" /\ lastOp.resp.kind = "transport"
    /\ DOMAIN prices = {BTCUSDT}

----------------------------------------------------------------------------
(* Properties of the requests the REST operations send *)

\* d[k] of a dict given by its items, and the argument named k of the last call
DictGet(items, k) == items[DictKeyIndex(items, k, 1)][2]
HasKey(items, k) == DictKeyIndex(items, k, 1) # 0
Arg(k) == DictGet(lastOp.args, k)

\* C11: the parameter set place_order sends contains 'price' if and only if a
\* price was provided and 'timeInForce' if and only if a time-in-force was
\* provided; an omitted argument is never sent as a null-valued field, and a
\* provided value is sent unchanged.
C11_OptionalParamsOmitted ==
    lastOp.op = "place_order" =>
        /\ Len(lastOp.sent) = 1
        /\ LET params == lastOp.sent[1].params
           IN  /\ HasKey(params, "price") <=> Arg("price") # PyNone
               /\ HasKey(params, "price") => DictGet(params, "price") = Arg("price")
               /\ HasKey(params, "timeInForce") <=> Arg("tif") # PyNone
               /\ HasKey(params, "timeInForce") =>
                     DictGet(params, "timeInForce") = Arg("tif")
               /\ \A i \in 1..Len(params) : params[i][2] # PyNone

C11_Witness ==
    /\ lastOp.op = "place_order"
    /\ Arg("price") = PyInt(100)
    /\ Arg("tif") = PyNone
    /\ Len(lastOp.sent) = 1
    /\ HasKey(lastOp.sent[1].params, "price")
    /\ ~HasKey(lastOp.sent[1].params, "timeInForce")
    /\ lastOp.ret = [order_id |-> 7, status |-> "NEW"]

\* C12: a request made with an HTTP method other than GET, POST or DELETE
\* fails loudly: _make_request raises at the call site, sends no HTTP
\* request, and the error is not turned into an absence return value.
C12_UnsupportedMethodRaises ==
    (lastOp.op = "_make_request" /\ Arg("method") \notin {"GET", "POST", "DELETE"}) =>
        /\ lastOp.exc = "ValueError"
        /\ lastOp.sent = <<>>
        /\ lastOp.log = <<>>

C12_Witness ==
    /\ lastOp.op = "_make_request"
    /\ Arg("method") = "PUT"
    /\ lastOp.symbol = ETHUSDT
    /\ lastOp.exc = "ValueError"
    /\ lastOp.sent = <<>>

AuthOps == {"get_balances", "place_order", "cancel_order", "get_order_status"}
PublicOps == {"get_contracts", "get_historical_candles", "get_bid_ask"}

\* C18: in every authenticated operation the timestamp is put into the
\* parameter set before signing, the signature is computed over all the
\* parameters that are sent except the signature itself, and the signature
\* is the last parameter added; the unauthenticated operations send neither
\* a timestamp nor a signature.
C18_SignedLast ==
    /\ lastOp.op \in AuthOps =>
          /\ Len(lastOp.sent) = 1
          /\ LET params == lastOp.sent[1].params
                 n == Len(params)
             IN  /\ n >= 2
                 /\ params[n][1] = "signature"
                 /\ HasKey(SubSeq(params, 1, n - 1), "timestamp")
                 /\ ~HasKey(SubSeq(params, 1, n - 1), "signature")
                 /\ DictGet(params, "timestamp") \in {PyInt(now) : now \in Times}
                 /\ params[n][2] = [hmac_key |-> SecretKey,
                                    hmac_msg |-> urlencode(SubSeq(params, 1, n - 1))]
    /\ lastOp.op \in PublicOps =>
          /\ Len(lastOp.sent) = 1
          /\ ~HasKey(lastOp.sent[1].params, "timestamp")
          /\ ~HasKey(lastOp.sent[1].params, "signature")

C18_Witness ==
    /\ lastOp.op = "get_order_status"
    /\ Len(lastOp.sent) = 1
    /\ Len(lastOp.sent[1].params) = 4
    /\ lastOp.sent[1].params[3] = <<"orderId", PyInt(7)>>
    /\ lastOp.sent[1].params[4][1] = "signature"
    /\ Len(lastOp.sent[1].params[4][2].hmac_msg) = 3
    /\ lastOp.ret = [order_id |-> 7, status |-> "NEW"]

----------------------------------------------------------------------------
(* Properties of the balance snapshot *)

\* C13: each get_balances request replaces the client's balance snapshot
\* wholesale: after a successful call the balances the client holds are
\* exactly the assets of that response, with no entry of the previous
\* snapshot remaining.
C13_BalancesReplaced ==
    (/\ pc \in {"ctor_thread", "idle"}
     /\ lastOp.op = "get_balances" /\ lastOp.exc = "none"
     /\ lastOp.resp.kind = "http" /\ lastOp.resp.status = StatusOk)
    => /\ balances = lastOp.ret
       /\ Len(balances.items) = Len(lastOp.resp.body.obj.assets)
       /\ \A i \in 1..Len(balances.items) :
            balances.items[i][1] = lastOp.resp.body.obj.assets[i].asset

----------------------------------------------------------------------------
(* Properties of the signature *)

\* the parameter mapping a direct call of _generate_signature was given
SigData(op) == DictGet(op.args, "data")

\* two mappings with the same keys in the same order that differ in the value
\* of exactly one parameter
OneValueChanged(d1, d2) ==
    /\ Len(d1) = Len(d2)
    /\ \A i \in 1..Len(d1) : d1[i][1] = d2[i][1]
    /\ Cardinality({i \in 1..Len(d1) : d1[i][2] # d2[i][2]}) = 1

\* ... and the changed value has another string form
OneStrChanged(d1, d2) ==
    /\ OneValueChanged(d1, d2)
    /\ \E i \in 1..Len(d1) : Str(d1[i][2]) # Str(d2[i][2])

\* two signings, the second after the first with any number of steps of the
\* stream thread in between
TwoSignings ==
    /\ lastOp.op = "_generate_signature"
    /\ lastOp'.op = "_generate_signature"

\* C14: the signature is a function of the secret key and the ordered
\* parameter mapping only: signing the same parameters in the same order
\* twice yields the same signature, whatever other state has changed in
\* between, and changing the value of any one parameter yields a different
\* signature.
C14_SignatureSensitive ==
    [][ TwoSignings =>
          /\ SigData(lastOp') = SigData(lastOp) => lastOp'.ret = lastOp.ret
          /\ OneValueChanged(SigData(lastOp), SigData(lastOp')) =>
                lastOp'.ret # lastOp.ret ]_vars

\* C14 as amended: signing the same parameters in the same order twice yields
\* the same signature, whatever other state has changed in between; changing
\* one parameter's value to a value with another string form yields a
\* different signature.
C14_SignatureOfStringForm ==
    [][ TwoSignings =>
          /\ SigData(lastOp') = SigData(lastOp) => lastOp'.ret = lastOp.ret
          /\ OneStrChanged(SigData(lastOp), SigData(lastOp')) =>
                lastOp'.ret # lastOp.ret ]_vars

C14_Witness ==
    /\ lastOp.op = "_generate_signature"
    /\ SigData(lastOp) = <<<<"symbol", PyStr(BTCUSDT)>>, <<"price", PyInt(101)>>>>
    /\ lastOp.ret.hmac_msg[2] = <<"price", "=", <<"1", "0", "1">>>>
    /\ ws_id = 3
    /\ DOMAIN prices = Symbols

----------------------------------------------------------------------------
(* Properties of the two threads sharing the client *)

\* C15: when a write of get_bid_ask and a write of _on_message for the same
\* symbol run concurrently, last write wins: in the state left after both
\* writes have finished the symbol's entry holds the bid and the ask of one
\* single write, never the bid of one write with the ask of the other.
C15_LastWriteWins ==
    (/\ RestUpsertDone /\ pc = "idle"
     /\ StreamUpsertDone /\ wpc = "open"
     /\ lastOp.symbol = wlast.msg.obj.s)
    => prices[lastOp.symbol] \in
         { Entry(lastOp.resp.body.obj.bidPrice, lastOp.resp.body.obj.askPrice),
           Entry(wlast.msg.obj.b, wlast.msg.obj.a) }

\* C16: every subscription request carries a request id strictly greater than
\* the id of every request built before it, so no two subscription requests
\* share an id, also when the foreground calls subscribe_channel while the
\* stream thread's on-open handler is calling it.
C16_DistinctRequestIds ==
    /\ (sub # NoSub /\ fsub # NoSub) => sub.id # fsub.id
    /\ \A i, j \in 1..Len(wsent) : i < j => wsent[i].id < wsent[j].id

\* a call of subscribe_channel runs its line 235
IncStep ==
    \/ pc = "fsub_store" /\ pc' = "idle"
    \/ wpc = "sub_store" /\ wpc' = "open"

\* a send that fails is logged once and the call goes on to line 235
SendFailureLogged ==
    /\ (pc = "fsub_send" /\ pc' # pc) =>
          /\ pc' = "fsub_inc" /\ lastOp'.exc = "none"
          /\ (ws = "None" \/ wpc \in {"created", "sleep"}) =>
                /\ Len(slog') = Len(slog) + 1
                /\ slog'[Len(slog')].level = "error"
                /\ slog'[Len(slog')].id = fsub.id
    /\ (wpc = "sub_send" /\ wpc' # wpc) =>
          /\ wpc' = "sub_inc"
          /\ Len(slog') \in {Len(slog), Len(slog) + 1}

\* a request is handed to send only by the send statement of its own call,
\* once
NoResend ==
    wsent' # wsent =>
        \/ wpc = "connecting" /\ wpc' = "sub_send" /\ wsent' = <<>>
        \/ pc = "fsub_send" /\ pc' = "fsub_inc" /\ wsent' = Append(wsent, fsub)
        \/ wpc = "sub_send" /\ wpc' = "sub_inc" /\ wsent' = Append(wsent, sub)

\* C17: each call of subscribe_channel increases the request-id counter by
\* exactly one whether or not the send succeeds; a send that fails is logged,
\* nothing is raised to the caller, and the subscription is not sent again
\* until the next connection-open event.
C17_CounterAndSendFailure ==
    /\ [][IncStep => ws_id' = ws_id + 1]_vars
    /\ [][SendFailureLogged]_vars
    /\ [][NoResend]_vars

\* the part of C17 about a failing send, which holds of every call
C17_SendFailureHandled == [][SendFailureLogged /\ NoResend]_vars

----------------------------------------------------------------------------
(* Properties of the price cache under both threads *)

\* the step creates the entry of symbol from a successful observation of it
FirstObservation(symbol) ==
    \/ /\ pc = "gba_create" /\ pc' = "gba_ret"
       /\ lastOp.symbol = symbol
       /\ lastOp.resp.status = StatusOk
       /\ prices'[symbol] = Entry(lastOp.resp.body.obj.bidPrice,
                                  lastOp.resp.body.obj.askPrice)
    \/ /\ wpc = "msg_create" /\ wpc' = "open"
       /\ IsBookTickerMsg(wlast.msg) /\ wlast.msg.obj.s = symbol
       /\ wlast'.exc = "none"
       /\ prices'[symbol] = Entry(wlast.msg.obj.b, wlast.msg.obj.a)

\* C19: the set of symbols that have a price-cache entry only grows: a symbol
\* has an entry only after a first successful observation of it, and once it
\* has an entry it has one in every later state, under any interleaving of
\* REST calls, stream messages, disconnects and reconnects.
C19_CacheOnlyGrows ==
    /\ [][DOMAIN prices \subseteq DOMAIN prices']_vars
    /\ [][\A symbol \in DOMAIN prices' \ DOMAIN prices : FirstObservation(symbol)]_vars
    /\ [](pc \in {"ctor_contracts", "ctor_balances", "ctor_thread"} => DOMAIN prices = {})

C19_Witness ==
    /\ wpc = "connecting"
    /\ ws_id = 3
    /\ DOMAIN prices = Symbols
    /\ prices[BTCUSDT] = [bid |-> 10, ask |-> 25]
    /\ prices[ETHUSDT] = [bid |-> 30, ask |-> 45]
    /\ lastOp.op = "get_bid_ask" /\ lastOp.exc = "KeyError"

\* C20: a successful get_bid_ask returns the bid and ask of its own REST
\* response, also when a book-ticker message for the same symbol is
\* dispatched by the stream thread while the call is in progress.
C20_ReturnsOwnQuote ==
    (/\ pc = "idle" /\ lastOp.op = "get_bid_ask"
     /\ lastOp.exc = "none" /\ lastOp.ret # PyNone)
    => lastOp.ret = Entry(lastOp.resp.body.obj.bidPrice,
                          lastOp.resp.body.obj.askPrice)

====
